---- MODULE Spec2Model ----
(***************************************************************************)
(* A model of the audio visualizers of react-audio-visualizer:             *)
(*   - AudioSpectrumAnalyzer (logarithmic bucketing),                      *)
(*   - its equal-width (linear bucketing) variant,                         *)
(*   - LinearHistoricalVolumeVisualizer (rolling volume history).          *)
(* The three components share one life cycle: startVisualization,          *)
(* stopVisualization and a tick that re-arms itself with                   *)
(* requestAnimationFrame.                                                  *)
(*                                                                         *)
(* Numbers.  Frequencies are whole Hz (maxFrequencyKHz is held as its      *)
(* value in Hz, maxFrequencyKHz * 1000), sample rates are even, so that    *)
(* sampleRate / 2 is whole.  Quotients are kept exact: a bar value or a    *)
(* volume is the reduced fraction [n, d].  Math.floor and Math.ceil of a   *)
(* quotient of whole numbers below 2^53 are the exact floor and ceiling.   *)
(* The logarithmic band edges 10 ** (logMin + i * logStep) are the exact   *)
(* geometric interpolation minFreq^(1-i/n) * maxFreq^(i/n).                *)
(* A division by 0 gives the records Infinity and NaN, a read outside a    *)
(* buffer gives NaN.                                                       *)
(***************************************************************************)
EXTENDS Integers, Sequences, FiniteSets, TLC

VARIABLES
    component,          \* which of the three components is mounted
    props,              \* the props of the mounted component
    sampleRate,         \* AudioContext.sampleRate of the host
    streamRef,          \* streamRef.current is a MediaStream (TRUE) or null
    audioContextRef,    \* 0 = null, otherwise the id of an AudioContext
    analyzerRef,        \* 0 = null, otherwise the id of the context owning it
    animationFrameRef,  \* 0 = null, otherwise the last requestAnimationFrame id
    frames,             \* the callbacks requestAnimationFrame holds pending
    frameCount,         \* number of requestAnimationFrame calls so far
    contextCount,       \* number of AudioContexts constructed so far
    openContexts,       \* the AudioContexts constructed and not closed
    frequencyBars,      \* useState<BarData[]> of the spectrum components
    audioVolumeHistory, \* useState<{id, volume}[]> of the volume component
    containerWidth,     \* useState<number> of the volume component
    now,                \* Date.now() of the host
    dataRead,           \* history: the buffer the last tick read, <<>> if none
    lastOp,             \* history: the handler that ran last, and its outcome
    sinceStop,          \* history: stop() ran and no start() got past its guard since
    pushed,             \* history: the samples appended since the last start()
    pushBounds,         \* history: the maxBars each of these pushes applied
    isMicRecording,     \* useState of Controller: the button shows "stop"
    isRecording,        \* useState of useAudioStreaming
    micRequests,        \* getUserMedia() calls that have not settled yet
    liveStreams         \* MediaStreams obtained whose tracks were not stopped

vars == <<component, props, sampleRate, streamRef, audioContextRef, analyzerRef,
          animationFrameRef, frames, frameCount, contextCount, openContexts,
          frequencyBars, audioVolumeHistory, containerWidth, now, dataRead,
          lastOp, sinceStop, pushed, pushBounds, isMicRecording, isRecording,
          micRequests, liveStreams>>

-----------------------------------------------------------------------------
(* Bounds of the model *)

MaxFrames == 4      \* requestAnimationFrame calls in one behaviour
MaxContexts == 2    \* AudioContexts constructed in one behaviour
MaxNow == 1         \* milliseconds Date.now() advances in one behaviour
MaxRequests == 2    \* getUserMedia() calls pending at the same time

-----------------------------------------------------------------------------
(* Arithmetic *)

Undefined == -1     \* an optional numeric prop that was not passed

Max(a, b) == IF a >= b THEN a ELSE b
Min(a, b) == IF a <= b THEN a ELSE b

RECURSIVE GCD(_, _)
GCD(a, b) == IF b = 0 THEN a ELSE GCD(b, a % b)

RECURSIVE Pow(_, _)
Pow(b, e) == IF e = 0 THEN 1 ELSE b * Pow(b, e - 1)

\* Math.floor(n / d) and Math.ceil(n / d) for n >= 0, d > 0
Floor(n, d) == n \div d
Ceil(n, d) == (n + d - 1) \div d

\* the two non-finite results of a division of non-negative numbers:
\* x / 0 for x > 0, and 0 / 0 (or undefined / ratio)
Infinity == [n |-> 1, d |-> 0]
NaN == [n |-> 0, d |-> 0]

\* the number n / d, n >= 0, d >= 0: a reduced fraction when d > 0
Frac(n, d) ==
    IF d = 0 THEN (IF n = 0 THEN NaN ELSE Infinity)
    ELSE LET g == GCD(n, d) IN [n |-> n \div g, d |-> d \div g]
Zero == Frac(0, 1)
One == Frac(1, 1)
\* x <= y for numbers that are not NaN
FracLeq(x, y) == x.n * y.d <= y.n * x.d
Finite(x) == x.d > 0

RECURSIVE SumRange(_, _, _)
\* sum of dataArray[i] for lo <= i < hi (0-based indices into a 1-based sequence)
\* (summed by halves, to keep the evaluation shallow)
SumRange(dataArray, lo, hi) ==
    IF lo >= hi THEN 0
    ELSE IF hi = lo + 1 THEN dataArray[lo + 1]
    ELSE LET mid == (lo + hi) \div 2
         IN  SumRange(dataArray, lo, mid) + SumRange(dataArray, mid, hi)

-----------------------------------------------------------------------------
(* FrequencyBinMapper: getFrequencyBinRange and the per-bar sub-ranges *)

\* analyzerRef.current.frequencyBinCount
frequencyBinCount(p) == p.fftSize \div 2

\* maxFreq = (maxFrequencyKHz ?? sampleRate / 2000) * 1000
maxFreq(p, sr) ==
    IF p.maxFrequencyHz = Undefined THEN sr \div 2 ELSE p.maxFrequencyHz

getFrequencyBinRange(p, sr, bufferLength) ==
    IF p.minFrequencyHz = Undefined /\ p.maxFrequencyHz = Undefined
    THEN [startBin |-> 0, endBin |-> bufferLength]
    ELSE LET minFreq == IF p.minFrequencyHz = Undefined THEN 0 ELSE p.minFrequencyHz
             startBin == Floor(minFreq * p.fftSize, sr)
             endBin == Ceil(maxFreq(p, sr) * p.fftSize, sr)
         IN  [startBin |-> Max(0, startBin), endBin |-> Min(endBin, bufferLength)]

\* (a partition whose upper edges are rounded up instead of down)
linearBarRange_ceilEnd(p, range, index) ==
    LET frequencyRangeLength == range.endBin - range.startBin
    IN  [rangeStartIdx |->
             Floor(range.startBin * p.barCount + index * frequencyRangeLength,
                   p.barCount),
         rangeEndIdx |->
             IF index = p.barCount - 1 THEN range.endBin
             ELSE Ceil(range.startBin * p.barCount + (index + 1) * frequencyRangeLength,
                       p.barCount)]

\* Equal-width variant: the sub-range of bar index over [startBin, endBin)
linearBarRange(p, range, index) ==
    LET frequencyRangeLength == range.endBin - range.startBin
        \* Math.floor(startBin + k * (frequencyRangeLength / barCount))
        edge(k) == Floor(range.startBin * p.barCount + k * frequencyRangeLength,
                         p.barCount)
    IN  [rangeStartIdx |-> edge(index),
         rangeEndIdx |-> IF index = p.barCount - 1 THEN range.endBin
                         ELSE edge(index + 1)]

\* Logarithmic variant: minFreq = Math.max(minFrequencyHz ?? 20, 20)
logMinFreq(p) ==
    Max(IF p.minFrequencyHz = Undefined THEN 20 ELSE p.minFrequencyHz, 20)

\* The band edge k of barCount is the frequency
\*   f_k = 10 ** (logMin + k * logStep) = minFreq^(1 - k/n) * maxFreq^(k/n),
\* at bin position x_k = f_k * fftSize / sampleRate, so that
\*   x_k^n = (minFreq * fftSize)^(n-k) * (maxFreq * fftSize)^k / sampleRate^n.
\* logScale reduces the three numbers by their common divisor.
logScale(p, sr) ==
    LET a == logMinFreq(p) * p.fftSize
        b == maxFreq(p, sr) * p.fftSize
        g == GCD(GCD(a, b), sr)
    IN  [a |-> a \div g, b |-> b \div g, d |-> sr \div g]

logEdgePower(p, sr, k) ==
    LET s == logScale(p, sr) IN Pow(s.a, p.barCount - k) * Pow(s.b, k)

\* Math.floor((10 ** (logMin + k * logStep) * fftSize) / sampleRate)
logEdgeFloor(p, sr, k) ==
    LET s == logScale(p, sr)
        n == p.barCount
        pw == logEdgePower(p, sr, k)
    IN  CHOOSE j \in 0 .. (Max(s.a, s.b) \div s.d) :
            Pow(j * s.d, n) <= pw /\ Pow((j + 1) * s.d, n) > pw

\* Math.ceil((10 ** (logMin + k * logStep) * fftSize) / sampleRate)
logEdgeCeil(p, sr, k) ==
    LET s == logScale(p, sr)
        n == p.barCount
        pw == logEdgePower(p, sr, k)
        f == logEdgeFloor(p, sr, k)
    IN  IF Pow(f * s.d, n) = pw THEN f ELSE f + 1

logBarRange(p, sr, range, index) ==
    [rangeStartIdx |-> Max(range.startBin, logEdgeFloor(p, sr, index)),
     rangeEndIdx |-> Min(range.endBin,
                         IF index = p.barCount - 1 THEN range.endBin
                         ELSE logEdgeCeil(p, sr, index + 1))]

-----------------------------------------------------------------------------
(* BarAggregator: the body of setFrequencyBars((prevBars) => prevBars.map(...)) *)

\* dataArray[idx] / ratio; an index outside the array reads undefined, and
\* undefined / ratio is NaN
binOverRatio(p, dataArray, idx) ==
    IF idx < 0 \/ idx >= Len(dataArray) THEN NaN
    ELSE Frac(dataArray[idx + 1], p.ratio)

\* (a normalisation that truncates at 1, as the volume component's does)
meanOverRatio_clamped(p, dataArray, lo, hi) ==
    LET v == Frac(SumRange(dataArray, lo, hi), (hi - lo) * p.ratio)
    IN  IF FracLeq(One, v) THEN One ELSE v

\* average / ratio, for the mean of dataArray over [lo, hi), lo < hi; a sum
\* that reads outside the array is NaN
meanOverRatio(p, dataArray, lo, hi) ==
    IF lo < 0 \/ hi > Len(dataArray) THEN NaN
    ELSE Frac(SumRange(dataArray, lo, hi), (hi - lo) * p.ratio)

linearBarValue(p, range, dataArray, index) ==
    LET r == linearBarRange(p, range, index)
    IN  IF r.rangeEndIdx <= r.rangeStartIdx THEN Zero
        ELSE meanOverRatio(p, dataArray, r.rangeStartIdx, r.rangeEndIdx)

\* (a fallback that does not clamp the bin to the buffer)
logSingleBinIdx_unclamped(p, sr, bufferLength, index) == logEdgeFloor(p, sr, index)

\* singleBinIdx of the fallback for an empty sub-range
logSingleBinIdx(p, sr, bufferLength, index) ==
    Min(logEdgeFloor(p, sr, index), bufferLength - 1)

logBarValue(p, sr, range, dataArray, index) ==
    LET r == logBarRange(p, sr, range, index)
    IN  IF r.rangeEndIdx <= r.rangeStartIdx
        THEN binOverRatio(p, dataArray, logSingleBinIdx(p, sr, Len(dataArray), index))
        ELSE meanOverRatio(p, dataArray, r.rangeStartIdx, r.rangeEndIdx)

\* (a map whose callback returns { value } without spreading the bar)
linearMapBars_dropId(p, range, dataArray, prevBars) ==
    [i \in 1 .. Len(prevBars) |->
        [id |-> Undefined, value |-> linearBarValue(p, range, dataArray, i - 1)]]

\* prevBars.map((bar, index) => ({...bar, value})), index = position - 1
linearMapBars(p, range, dataArray, prevBars) ==
    [i \in 1 .. Len(prevBars) |->
        [id |-> prevBars[i].id, value |-> linearBarValue(p, range, dataArray, i - 1)]]

logMapBars(p, sr, range, dataArray, prevBars) ==
    [i \in 1 .. Len(prevBars) |->
        [id |-> prevBars[i].id, value |-> logBarValue(p, sr, range, dataArray, i - 1)]]

\* Array.from({ length: barCount }, (_, i) => ({ id: i, value: 0 }))
initialBars(p) == [i \in 1 .. p.barCount |-> [id |-> i - 1, value |-> Zero]]

\* (a stop() that empties the bar sequence)
resetBars_clear(prevBars) == <<>>

\* (a stop() that leaves the bar values as they are)
resetBars_keepValues(prevBars) == prevBars

\* prevBars.map((bar) => ({ ...bar, value: 0 }))
resetBars(prevBars) ==
    [i \in 1 .. Len(prevBars) |-> [id |-> prevBars[i].id, value |-> Zero]]

-----------------------------------------------------------------------------
(* VolumeHistoryTracker *)

MAX_HISTORY_SEC == 3
SAMPLING_RATE == 60

\* (a bound that forgets that the first bar needs no spacing)
calculateMaxVisibleBars_noSpacing(p, width) ==
    IF width = 0 THEN MAX_HISTORY_SEC * SAMPLING_RATE
    ELSE IF p.barWidth + p.barSpacing = 0 THEN MAX_HISTORY_SEC * SAMPLING_RATE
    ELSE Min(Floor(width, p.barWidth + p.barSpacing),
             MAX_HISTORY_SEC * SAMPLING_RATE)

\* calculateMaxVisibleBars of the render whose containerWidth is width
calculateMaxVisibleBars(p, width) ==
    IF width = 0 THEN MAX_HISTORY_SEC * SAMPLING_RATE
    ELSE IF p.barWidth + p.barSpacing = 0 THEN MAX_HISTORY_SEC * SAMPLING_RATE
    ELSE Min(Floor(width + p.barSpacing, p.barWidth + p.barSpacing),
             MAX_HISTORY_SEC * SAMPLING_RATE)

\* (a volume that is not truncated at 1)
normalizedVolume_unclamped(p, dataArray) ==
    Frac(SumRange(dataArray, 0, Len(dataArray)), Len(dataArray) * p.ratio)

\* Math.min(1, averageVolume / (props.ratio ?? 50)); Math.min(1, NaN) is NaN
normalizedVolume(p, dataArray) ==
    LET totalVolume == SumRange(dataArray, 0, Len(dataArray))
        v == Frac(totalVolume, Len(dataArray) * p.ratio)
    IN  IF v = NaN THEN NaN ELSE IF FracLeq(One, v) THEN One ELSE v

\* (an updater that never evicts)
pushHistory_keepAll(prevHistory, sample, maxBars) == Append(prevHistory, sample)

\* (an eviction that drops the newest sample instead of the oldest)
pushHistory_dropNewest(prevHistory, sample, maxBars) ==
    LET newHistory == Append(prevHistory, sample)
    IN  IF Len(newHistory) > maxBars
        THEN SubSeq(newHistory, 1, Len(newHistory) - 1)
        ELSE newHistory

\* the updater passed to setAudioVolumeHistory; id is Date.now(), whose
\* toString() is one-to-one, so the number stands for the string
pushHistory(prevHistory, sample, maxBars) ==
    LET newHistory == Append(prevHistory, sample)
    IN  IF Len(newHistory) > maxBars THEN Tail(newHistory) ELSE newHistory

-----------------------------------------------------------------------------
(* The host: requestAnimationFrame, getByteFrequencyData, the stream *)

Components == {"log", "linear", "volume"}

\* magnitude buffers getByteFrequencyData may deliver to the spectrum
\* components: silence, full scale, and one uneven buffer
SpectrumBuffers(len) ==
    { [i \in 1 .. len |-> 0],
      [i \in 1 .. len |-> 255],
      [i \in 1 .. len |-> (i * 37) % 256] }

\* and to the volume component, whose analyser has fftSize 256: silence and
\* an even level of 25
VolumeBuffers == { [i \in 1 .. 128 |-> 0], [i \in 1 .. 128 |-> 25] }

\* more of them: full scale, one uneven buffer and one that is silent but
\* for a single bin
WideVolumeBuffers ==
    VolumeBuffers \cup
    { [i \in 1 .. 128 |-> 255],
      [i \in 1 .. 128 |-> (i * 37) % 256],
      [i \in 1 .. 128 |-> IF i = 3 THEN 1 ELSE 0] }

\* requestAnimationFrame(callback): ids count up from 1; width is the
\* containerWidth of the render whose closure the callback is
requestAnimationFrame(width) == [id |-> frameCount + 1, width |-> width]

\* the callbacks of a frame run in the order they were requested: the next
\* one to run is the pending callback with the smallest id
nextFrame(pending) == CHOOSE f \in pending : \A g \in pending : f.id <= g.id

\* (a tick that returns without requesting the next frame)
afterTick_noRearm(pending, f, next) == pending \ {f}

\* the pending callbacks after callback f has run and has requested next
afterTick(pending, f, next) == (pending \ {f}) \cup {next}

\* cancelAnimationFrame(id)
cancelAnimationFrame(pending, id) == {f \in pending : f.id # id}

-----------------------------------------------------------------------------
(* Props the sessions of the model run with *)

SpectrumSessionProps ==
    { [fftSize |-> 32, minFrequencyHz |-> Undefined, maxFrequencyHz |-> Undefined,
       barCount |-> 2, ratio |-> 128, barWidth |-> 4, barSpacing |-> 2],
      \* a range wholly above the Nyquist frequency of an 8000 Hz context
      [fftSize |-> 32, minFrequencyHz |-> 5000, maxFrequencyHz |-> 6000,
       barCount |-> 2, ratio |-> 128, barWidth |-> 4, barSpacing |-> 2],
      \* ratio = 0 is a number, so the default 512 does not replace it
      [fftSize |-> 32, minFrequencyHz |-> Undefined, maxFrequencyHz |-> Undefined,
       barCount |-> 2, ratio |-> 0, barWidth |-> 4, barSpacing |-> 2] }

\* App.tsx: barWidth 7, barSpacing 1, ratio 50; fftSize 256 is set by
\* startVisualization itself
VolumeSessionProps ==
    { [fftSize |-> 256, minFrequencyHz |-> Undefined, maxFrequencyHz |-> Undefined,
       barCount |-> 0, ratio |-> 50, barWidth |-> 7, barSpacing |-> 1],
      \* ratio = 0 is not null, so props.ratio ?? 50 is 0
      [fftSize |-> 256, minFrequencyHz |-> Undefined, maxFrequencyHz |-> Undefined,
       barCount |-> 0, ratio |-> 0, barWidth |-> 7, barSpacing |-> 1] }

\* bar geometries of the volume component: no width and no spacing, hairline
\* bars, the demo's 7 + 1, and 16 + 1
VolumeBarProps ==
    { [fftSize |-> 256, minFrequencyHz |-> Undefined, maxFrequencyHz |-> Undefined,
       barCount |-> 0, ratio |-> 50, barWidth |-> barWidth, barSpacing |-> barSpacing] :
        barWidth \in {0, 1, 7, 16}, barSpacing \in {0, 1, 2} }

\* ratios from 1 to above the largest magnitude
VolumeRatioProps ==
    { [fftSize |-> 256, minFrequencyHz |-> Undefined, maxFrequencyHz |-> Undefined,
       barCount |-> 0, ratio |-> ratio, barWidth |-> 7, barSpacing |-> 1] :
        ratio \in {1, 50, 128, 255, 300} }

\* normalizedVolume of every buffer the volume sessions can be given,
\* evaluated once
sessionVolume ==
    [p \in VolumeSessionProps \cup VolumeBarProps \cup VolumeRatioProps |->
        [dataArray \in WideVolumeBuffers |-> normalizedVolume(p, dataArray)]]

SessionProps(c) == IF c = "volume" THEN VolumeSessionProps ELSE SpectrumSessionProps

SessionSampleRates == {8000}

\* clientWidth values the ResizeObserver reports: maxVisibleBars 1 and 2
\* (the width before the first report is 0: maxVisibleBars 180)
Widths == {7, 15}

-----------------------------------------------------------------------------
(* State after mounting *)

Mounted(c, p, sr) ==
    /\ component = c
    /\ props = p
    /\ sampleRate = sr
    /\ streamRef = FALSE
    /\ isMicRecording = FALSE
    /\ isRecording = FALSE
    /\ micRequests = 0
    /\ liveStreams = 0
    /\ audioContextRef = 0
    /\ analyzerRef = 0
    /\ animationFrameRef = 0
    /\ frames = {}
    /\ frameCount = 0
    /\ contextCount = 0
    /\ openContexts = {}
    /\ frequencyBars = IF c = "volume" THEN <<>> ELSE initialBars(p)
    /\ audioVolumeHistory = <<>>
    /\ containerWidth = 0
    /\ now = 0
    /\ dataRead = <<>>
    /\ lastOp = "mount"
    /\ sinceStop = FALSE
    /\ pushed = <<>>
    /\ pushBounds = <<>>

Init ==
    \E c \in Components : \E p \in SessionProps(c) : \E sr \in SessionSampleRates :
        Mounted(c, p, sr)

config == <<component, props, sampleRate>>
audio == <<audioContextRef, analyzerRef, contextCount, openContexts>>
history == <<dataRead, pushed, pushBounds>>
app == <<isMicRecording, isRecording, micRequests, liveStreams>>

-----------------------------------------------------------------------------
(* useAudioStreaming *)

\* streamRef.current = stream; setIsRecording(true), for a new MediaStream
granted(n) ==
    /\ streamRef' = TRUE
    /\ isRecording' = TRUE
    /\ liveStreams' = n + 1

\* setIsRecording(false); every track of streamRef.current is stopped;
\* streamRef.current = null. A stream that streamRef no longer holds stays live.
released ==
    /\ isRecording' = FALSE
    /\ liveStreams' = IF streamRef THEN liveStreams - 1 ELSE liveStreams
    /\ streamRef' = FALSE

\* startRecording() of a host that holds no stream, getUserMedia being granted
\* before anything else happens
startRecording ==
    /\ ~streamRef
    /\ granted(liveStreams)
    /\ UNCHANGED <<lastOp, config, audio, animationFrameRef, frames, frameCount,
                   frequencyBars, audioVolumeHistory, containerWidth, now,
                   sinceStop, history, isMicRecording, micRequests>>

stopRecording ==
    /\ released
    /\ UNCHANGED <<lastOp, config, audio, animationFrameRef, frames, frameCount,
                   frequencyBars, audioVolumeHistory, containerWidth, now,
                   sinceStop, history, isMicRecording, micRequests>>

-----------------------------------------------------------------------------
(* AudioSpectrumAnalyzer and its equal-width variant *)

\* (a start() that does not look at the stream)
hasStream_always == TRUE

\* the guard of startVisualization: if (!streamRef.current) return
hasStream == streamRef

\* lastOp of a startVisualization that got past its guard; it tells a start()
\* that is the retry of a refused one from any other
started == IF lastOp = "start:noStream" THEN "start:retry" ELSE "start"

\* new AudioContext(); createAnalyser(); source.connect(analyzer)
openAudio ==
    /\ contextCount' = contextCount + 1
    /\ audioContextRef' = contextCount + 1
    /\ analyzerRef' = contextCount + 1
    /\ openContexts' = openContexts \cup {contextCount + 1}

\* What audioContextRef.current?.close() can do when there is a context: close
\* it; return a promise that rejects, the context staying open; or raise, which
\* ends stopVisualization at that statement.
CloseOutcomes == {"closed", "rejected", "raised"}

\* audioContextRef.current?.close(); audioContextRef.current = null
closeAudio(outcome) ==
    /\ openContexts' = IF outcome = "closed" THEN openContexts \ {audioContextRef}
                       ELSE openContexts
    /\ audioContextRef' = IF outcome = "raised" THEN audioContextRef ELSE 0
    /\ UNCHANGED <<analyzerRef, contextCount>>

\* lastOp of a stopVisualization whose close() ended with outcome
stopped(outcome) ==
    CASE outcome = "closed" -> "stop"
      [] outcome = "rejected" -> "stop:closeRejected"
      [] outcome = "raised" -> "stop:closeRaised"

spectrumStartVisualization ==
    /\ component \in {"log", "linear"}
    /\ IF ~hasStream
       THEN /\ lastOp' = "start:noStream"
            /\ UNCHANGED <<audio, animationFrameRef, frames, frameCount,
                           frequencyBars, sinceStop, dataRead>>
       ELSE /\ contextCount < MaxContexts
            /\ frameCount < MaxFrames
            /\ openAudio
            /\ frequencyBars' = initialBars(props)
            /\ frames' = frames \cup {requestAnimationFrame(0)}
            /\ frameCount' = frameCount + 1
            /\ animationFrameRef' = frameCount + 1
            /\ sinceStop' = FALSE
            /\ dataRead' = <<>>
            /\ lastOp' = started
    /\ UNCHANGED <<config, streamRef, app, audioVolumeHistory, containerWidth, now,
                   pushed, pushBounds>>

spectrumStop(outcome) ==
    /\ component \in {"log", "linear"}
    /\ (outcome # "closed") => (audioContextRef # 0)
    /\ frames' = IF animationFrameRef # 0
                 THEN cancelAnimationFrame(frames, animationFrameRef)
                 ELSE frames
    /\ closeAudio(outcome)
    /\ IF outcome = "raised"
       THEN UNCHANGED <<frequencyBars, sinceStop>>
       ELSE /\ frequencyBars' = resetBars(frequencyBars)
            /\ sinceStop' = TRUE
    /\ lastOp' = stopped(outcome)
    /\ UNCHANGED <<config, streamRef, app, animationFrameRef, frameCount,
                   audioVolumeHistory, containerWidth, now, history>>

spectrumStopVisualization == \E outcome \in CloseOutcomes : spectrumStop(outcome)

\* the callback of one pending frame runs: updateFrequencyData
spectrumUpdateFrequencyData(f, dataArray) ==
    /\ component \in {"log", "linear"}
    /\ IF analyzerRef = 0 \/ audioContextRef = 0
       THEN /\ frames' = frames \ {f}
            /\ lastOp' = "tick:noAudio"
            /\ UNCHANGED <<animationFrameRef, frameCount, frequencyBars, dataRead>>
       ELSE LET bufferLength == frequencyBinCount(props)
                range == getFrequencyBinRange(props, sampleRate, bufferLength)
            IN  /\ frameCount < MaxFrames
                /\ Len(dataArray) = bufferLength
                /\ dataRead' = dataArray
                /\ IF range.endBin <= range.startBin
                   THEN /\ lastOp' = "tick:emptyRange"
                        /\ UNCHANGED frequencyBars
                   ELSE /\ frequencyBars' =
                               IF component = "log"
                               THEN logMapBars(props, sampleRate, range, dataArray,
                                               frequencyBars)
                               ELSE linearMapBars(props, range, dataArray,
                                                  frequencyBars)
                        /\ lastOp' = "tick:published"
                /\ frames' = afterTick(frames, f, requestAnimationFrame(0))
                /\ frameCount' = frameCount + 1
                /\ animationFrameRef' = frameCount + 1
    /\ UNCHANGED <<config, streamRef, app, audio, audioVolumeHistory, containerWidth,
                   now, sinceStop, pushed, pushBounds>>

spectrumTick ==
    /\ frames # {}
    /\ \E dataArray \in SpectrumBuffers(frequencyBinCount(props)) :
           spectrumUpdateFrequencyData(nextFrame(frames), dataArray)

-----------------------------------------------------------------------------
(* LinearHistoricalVolumeVisualizer *)

\* the ResizeObserver callback updateWidth: setContainerWidth(clientWidth)
updateWidth(w) ==
    /\ component = "volume"
    /\ w # containerWidth
    /\ containerWidth' = w
    /\ lastOp' = "resize"
    /\ UNCHANGED <<config, streamRef, app, audio, animationFrameRef, frames,
                   frameCount, frequencyBars, audioVolumeHistory, now, sinceStop,
                   history>>

resize == \E w \in Widths : updateWidth(w)

\* (a start() that keeps the window of the session before)
startHistory_keepPrevious == audioVolumeHistory

\* setAudioVolumeHistory([]) of startVisualization
startHistory == <<>>

\* The scheduled callback () => logData(dataArray) belongs to the render in
\* which start() was called: logData, and the calculateMaxVisibleBars it
\* calls, are the useCallback values of that render, and logData re-arms
\* itself, so the whole chain keeps that render's containerWidth.
volumeStart(stream) ==
    /\ component = "volume"
    /\ IF ~stream
       THEN /\ lastOp' = "start:noStream"
            /\ UNCHANGED <<audio, animationFrameRef, frames, frameCount,
                           audioVolumeHistory, sinceStop, history>>
       ELSE /\ contextCount < MaxContexts
            /\ frameCount < MaxFrames
            /\ openAudio
            /\ audioVolumeHistory' = startHistory
            /\ frames' = frames \cup {requestAnimationFrame(containerWidth)}
            /\ frameCount' = frameCount + 1
            /\ animationFrameRef' = frameCount + 1
            /\ sinceStop' = FALSE
            /\ dataRead' = <<>>
            /\ pushed' = <<>>
            /\ pushBounds' = <<>>
            /\ lastOp' = started
    /\ UNCHANGED <<config, frequencyBars, containerWidth, now>>

volumeStartVisualization == volumeStart(hasStream) /\ UNCHANGED <<streamRef, app>>

volumeStopped(outcome) ==
    /\ component = "volume"
    /\ (outcome # "closed") => (audioContextRef # 0)
    /\ frames' = IF animationFrameRef # 0
                 THEN cancelAnimationFrame(frames, animationFrameRef)
                 ELSE frames
    /\ closeAudio(outcome)
    /\ sinceStop' = IF outcome = "raised" THEN sinceStop ELSE TRUE
    /\ lastOp' = stopped(outcome)
    /\ UNCHANGED <<config, animationFrameRef, frameCount, frequencyBars,
                   audioVolumeHistory, containerWidth, now, history>>

volumeStop(outcome) == volumeStopped(outcome) /\ UNCHANGED <<streamRef, app>>

volumeStopVisualization == \E outcome \in CloseOutcomes : volumeStop(outcome)

\* the callback of one pending frame runs: logData(dataArray), with Date.now() = t
volumeLogData(f, dataArray, t) ==
    /\ component = "volume"
    /\ IF analyzerRef = 0
       THEN /\ frames' = frames \ {f}
            /\ lastOp' = "tick:noAudio"
            /\ UNCHANGED <<animationFrameRef, frameCount, audioVolumeHistory, now,
                           history>>
       ELSE LET sample == [id |-> t, volume |-> sessionVolume[props][dataArray]]
                maxBars == calculateMaxVisibleBars(props, f.width)
            IN  /\ frameCount < MaxFrames
                /\ now' = t
                /\ dataRead' = dataArray
                /\ audioVolumeHistory' = pushHistory(audioVolumeHistory, sample, maxBars)
                /\ pushed' = Append(pushed, sample)
                /\ pushBounds' = Append(pushBounds, maxBars)
                /\ frames' = afterTick(frames, f, requestAnimationFrame(f.width))
                /\ frameCount' = frameCount + 1
                /\ animationFrameRef' = frameCount + 1
                /\ lastOp' = "tick:pushed"
    /\ UNCHANGED <<config, streamRef, app, audio, frequencyBars, containerWidth,
                   sinceStop>>

volumeTick ==
    /\ frames # {}
    /\ \E dataArray \in VolumeBuffers : \E t \in {now, now + 1} :
           /\ t <= MaxNow
           /\ volumeLogData(nextFrame(frames), dataArray, t)

\* a tick of a session that is given any of the wider set of buffers
volumeTickWide ==
    /\ frames # {}
    /\ \E dataArray \in WideVolumeBuffers : \E t \in {now, now + 1} :
           /\ t <= MaxNow
           /\ volumeLogData(nextFrame(frames), dataArray, t)

-----------------------------------------------------------------------------
(* The components under every order of start(), stop(), frames and resizes *)

Next ==
    \/ startRecording
    \/ stopRecording
    \/ spectrumStartVisualization
    \/ spectrumStopVisualization
    \/ spectrumTick
    \/ resize
    \/ volumeStartVisualization
    \/ volumeStopVisualization
    \/ volumeTick

Spec == Init /\ [][Next]_vars

-----------------------------------------------------------------------------
(* Claims about the life cycle, checked under Spec *)

spectrum == component \in {"log", "linear"}

\* C1: at most one scheduled tick is pending at any time, also after a second
\* start() issued while the loop is running.
C1_AtMostOnePendingTick == Cardinality(frames) <= 1

\* C2: between a stop() and the next start() no step writes the published
\* state (the bar sequence, the volume window).
C2_NoWriteAfterStop ==
    [][(sinceStop /\ sinceStop') =>
          (frequencyBars' = frequencyBars /\ audioVolumeHistory' = audioVolumeHistory)]_vars

\* C3: in the spectrum components, from stop() until the next start() every
\* bar value is 0: the bars are the baseline start() installs.
C3_BarsZeroAfterStop ==
    (spectrum /\ sinceStop) =>
        /\ \A i \in 1 .. Len(frequencyBars) : frequencyBars[i].value = Zero
        /\ frequencyBars = initialBars(props)

\* a frame left pending by a second start() has run after stop()
C3_Witness ==
    spectrum /\ sinceStop /\ lastOp = "tick:noAudio" /\ contextCount = 2

\* C4: in the volume component the rolling window is empty after stop().
C4_WindowEmptyAfterStop ==
    (component = "volume" /\ lastOp = "stop") => audioVolumeHistory = <<>>

\* C5: after every push the window is no longer than the bound of the
\* current viewport width.
C5_WindowWithinCurrentBound ==
    (component = "volume" /\ lastOp = "tick:pushed") =>
        Len(audioVolumeHistory) <= calculateMaxVisibleBars(props, containerWidth)

LastN(seq, n) == SubSeq(seq, Len(seq) - n + 1, Len(seq))
appliedBounds == {pushBounds[i] : i \in 1 .. Len(pushBounds)}

\* C6: when every push since start() applied the same bound B and more than B
\* samples were pushed, the window is the B most recent samples, oldest first.
C6_WindowIsMostRecent ==
    (component = "volume" /\ Cardinality(appliedBounds) = 1) =>
        \A B \in appliedBounds :
            Len(pushed) > B => audioVolumeHistory = LastN(pushed, B)

C6_Witness ==
    /\ component = "volume"
    /\ appliedBounds = {2}
    /\ Len(pushed) = 3
    /\ pushed[1] # pushed[2]
    /\ pushed[2] # pushed[3]
    /\ containerWidth # 15

\* the state start() and stop() write: the audio handle, the scheduled
\* ticks, the bars and the window
session == <<audio, animationFrameRef, frames, frameCount, frequencyBars,
             audioVolumeHistory>>

startVisualization == spectrumStartVisualization \/ volumeStartVisualization
stopVisualization == spectrumStopVisualization \/ volumeStopVisualization

\* a start() has just entered Running: a context is open, the tick it
\* scheduled is pending, the bars are zero and the window is empty
running ==
    /\ audioContextRef # 0
    /\ audioContextRef \in openContexts
    /\ analyzerRef = audioContextRef
    /\ \E f \in frames : f.id = animationFrameRef
    /\ spectrum => frequencyBars = initialBars(props)
    /\ component = "volume" => audioVolumeHistory = <<>>

\* C14: start() without a stream creates no context, schedules no tick and
\* leaves the bars and the window as they are; a start() made once a stream
\* is there enters Running.
C14_StartWithoutStreamIsNoOp ==
    /\ [][(startVisualization /\ ~streamRef) => UNCHANGED session]_vars
    /\ [](lastOp \in {"start", "start:retry"} => running)

\* a start() was refused, and its retry started the first session
C14_Witness ==
    /\ lastOp = "start:retry"
    /\ contextCount = 1
    /\ frameCount = 1
    /\ running

\* C15: when the release of the audio handle fails during stop(), the bars
\* are still reset to zero, the window is still emptied and the tick stop()
\* found scheduled is still cancelled.
C15_ResetDespiteFailedRelease ==
    lastOp \in {"stop:closeRejected", "stop:closeRaised"} =>
        /\ spectrum => \A i \in 1 .. Len(frequencyBars) : frequencyBars[i].value = Zero
        /\ component = "volume" => audioVolumeHistory = <<>>
        /\ ~ \E f \in frames : f.id = animationFrameRef

\* C16: a session whose ratio is 0 is rejected before the loop starts:
\* start() schedules no tick, and no bar and no sample is ever NaN or Infinity.
C16_ZeroRatioRejected ==
    props.ratio = 0 =>
        /\ frames = {}
        /\ \A i \in 1 .. Len(frequencyBars) : Finite(frequencyBars[i].value)
        /\ \A i \in 1 .. Len(audioVolumeHistory) : Finite(audioVolumeHistory[i].volume)

RECURSIVE freshTracker(_)
\* the window of a tracker that starts empty and is given the first k pushes
\* made since the last start(), each with the bound it was made with
freshTracker(k) ==
    IF k = 0 THEN <<>>
    ELSE pushHistory(freshTracker(k - 1), pushed[k], pushBounds[k])

\* the bars a tick publishes from buffer dataArray over bars that are all zero
freshBars(dataArray) ==
    LET range == getFrequencyBinRange(props, sampleRate, frequencyBinCount(props))
    IN  IF component = "log"
        THEN logMapBars(props, sampleRate, range, dataArray, initialBars(props))
        ELSE linearMapBars(props, range, dataArray, initialBars(props))

\* C17: every start() that gets past its guard installs all-zero bars and an
\* empty window, so the published state is a function of the ticks since the
\* last start() alone: the window is that of a fresh tracker given the same
\* pushes, the bars are those a first tick would publish from the same buffer.
C17_StartReinitializes ==
    /\ component = "volume" => audioVolumeHistory = freshTracker(Len(pushed))
    /\ (spectrum /\ lastOp \in {"start", "start:retry"})
           => frequencyBars = initialBars(props)
    /\ (spectrum /\ lastOp = "tick:published") => frequencyBars = freshBars(dataRead)

\* a second session, begun after a stop() that left a sample in the window,
\* has made its first push
C17_Witness ==
    /\ component = "volume"
    /\ contextCount = 2
    /\ openContexts = {2}
    /\ frameCount = 4
    /\ lastOp = "tick:pushed"
    /\ Len(pushed) = 1
    /\ audioVolumeHistory = pushed

barIds(bars) == [i \in 1 .. Len(bars) |-> bars[i].id]

\* C18: in the spectrum components the bar sequence always has barCount
\* elements with ids 0 .. barCount - 1 in ascending order, and no step changes
\* the length of the sequence or the id at any position.
C18_BarIdentityFixed ==
    /\ [](spectrum => barIds(frequencyBars) = [i \in 1 .. props.barCount |-> i - 1])
    /\ [][spectrum => barIds(frequencyBars') = barIds(frequencyBars)]_vars

\* a tick has published non-zero values and stop() has reset them
C18_Witness ==
    /\ component = "linear"
    /\ lastOp = "stop"
    /\ props.barCount = 2
    /\ props.ratio > 0
    /\ dataRead # <<>>
    /\ SumRange(dataRead, 0, Len(dataRead)) > 0
    /\ props.minFrequencyHz = Undefined
    /\ Len(frequencyBars) = 2

\* C19: stop() while the loop is idle (no context is held: before any start(),
\* or after a stop() that completed) raises nothing, schedules nothing and
\* leaves the bars, the window and the audio handle as they were.
C19_StopWhenIdleIsNoOp ==
    [][(stopVisualization /\ audioContextRef = 0) =>
          /\ lastOp' = "stop"
          /\ frameCount' = frameCount
          /\ frames' \subseteq frames
          /\ UNCHANGED <<audio, frequencyBars, audioVolumeHistory>>]_vars

\* a stop() after the stop() of the first session, whose close() was rejected
C19_Witness ==
    /\ lastOp = "stop"
    /\ sinceStop
    /\ audioContextRef = 0
    /\ contextCount = 1
    /\ openContexts = {1}

\* a step is a push: a tick of the volume component that appended a sample
push == volumeTick /\ lastOp' = "tick:pushed"
lastPushed == pushed[Len(pushed)]
lastBound == pushBounds[Len(pushBounds)]

\* C21: a push appends one sample at the tail and removes at most one sample,
\* the head: the head goes exactly when the length after the append exceeds
\* the bound the push applies; nothing else in the window moves.
C21_PushEvictsAtMostHead ==
    [][push =>
          audioVolumeHistory' =
              IF Len(audioVolumeHistory) + 1 > lastBound'
              THEN Tail(audioVolumeHistory) \o <<lastPushed'>>
              ELSE audioVolumeHistory \o <<lastPushed'>>]_vars

\* a push onto a full window of two has dropped the head
C21_Witness ==
    /\ component = "volume"
    /\ lastOp = "tick:pushed"
    /\ pushBounds = <<2, 2, 2>>
    /\ audioVolumeHistory = <<pushed[2], pushed[3]>>

\* C22: every push applies the bound of the viewport width current at that
\* push, also when the width changed since the session started.
C22_BoundOfCurrentWidth ==
    (component = "volume" /\ lastOp = "tick:pushed") =>
        lastBound = calculateMaxVisibleBars(props, containerWidth)

tick == spectrumTick \/ volumeTick

\* C23: a tick that runs while the audio source is unavailable (no context is
\* held: before any start(), or after stop()) publishes nothing and schedules
\* no further tick.
C23_TickWithoutSourceIsNoOp ==
    [][(tick /\ audioContextRef = 0) =>
          /\ frequencyBars' = frequencyBars
          /\ audioVolumeHistory' = audioVolumeHistory
          /\ frameCount' = frameCount
          /\ frames' \subseteq frames]_vars

\* the audio source is there: the context and the analyser of the session
sourceAvailable == audioContextRef # 0 /\ analyzerRef = audioContextRef

\* C24: a tick that runs while the source is available schedules exactly one
\* next tick before it returns, also a spectrum tick whose overall bin range
\* is empty and which publishes nothing: the tick that ran is replaced by the
\* one it scheduled, so the loop does not stall by itself.
C24_TickSchedulesNext ==
    [][(tick /\ sourceAvailable) =>
          /\ frameCount' = frameCount + 1
          /\ animationFrameRef' = frameCount'
          /\ \E f \in frames' :
                 /\ f.id = animationFrameRef'
                 /\ frames' = (frames \ {nextFrame(frames)}) \cup {f}
          /\ lastOp' = "tick:emptyRange" => frequencyBars' = frequencyBars]_vars

\* a tick over an empty bin range has scheduled its successor
C24_Witness ==
    /\ spectrum
    /\ lastOp = "tick:emptyRange"
    /\ sourceAvailable
    /\ frames = {[id |-> animationFrameRef, width |-> 0]}
    /\ frameCount >= 2

\* C25: in the volume window every sample's id differs from every other
\* sample's id, and ids strictly increase from head to tail, however close in
\* time two pushes are.
C25_IdsStrictlyIncrease ==
    component = "volume" =>
        \A i, j \in 1 .. Len(audioVolumeHistory) :
            i < j => audioVolumeHistory[i].id < audioVolumeHistory[j].id

\* C28: in every component at most one AudioContext is open at any time, none
\* is open that audioContextRef does not hold, and once a stop() whose close()
\* succeeded has returned none is open: no start() overwrites, and no stop()
\* drops, a context that is still open.
C28_OneContextClosedByStop ==
    /\ Cardinality(openContexts) <= 1
    /\ openContexts \subseteq {audioContextRef}
    /\ lastOp = "stop" => openContexts = {}

-----------------------------------------------------------------------------
(* The bin mapping over many configurations: a session that has just been   *)
(* started, for every configuration of BinConfigs, and its ticks            *)

spectrumProps(fftSize, minHz, maxHz, barCount) ==
    [fftSize |-> fftSize, minFrequencyHz |-> minHz, maxFrequencyHz |-> maxHz,
     barCount |-> barCount, ratio |-> 128, barWidth |-> 4, barSpacing |-> 2]

\* 0 <= minHz < maxHz, with the defaults the code gives the missing bounds
validFrequencyRange(p, sr) ==
    (IF p.minFrequencyHz = Undefined THEN 0 ELSE p.minFrequencyHz) < maxFreq(p, sr)

LinearBinConfigs ==
    { c \in [component : {"linear"},
             sampleRate : {8000, 44100},
             props : { spectrumProps(fftSize, minHz, maxHz, barCount) :
                         fftSize \in {32, 256},
                         minHz \in {Undefined, 0, 20, 100, 250, 5000, 30000},
                         maxHz \in {Undefined, 1000, 4000, 8000, 40000},
                         barCount \in {1, 2, 3, 16} }] :
        validFrequencyRange(c.props, c.sampleRate) }

\* (the powers of the logarithmic edges stay below 2^31 for these)
LogBinConfigs ==
    { c \in [component : {"log"},
             sampleRate : {8000},
             props : { spectrumProps(fftSize, minHz, maxHz, barCount) :
                         fftSize \in {32},
                         minHz \in {Undefined, 0, 20, 100, 250, 3000, 5000},
                         maxHz \in {Undefined, 1000, 4000, 8000},
                         barCount \in {1, 2, 3} }] :
        validFrequencyRange(c.props, c.sampleRate) }

BinConfigs == LinearBinConfigs \cup LogBinConfigs

\* the state startRecording and then start() leave a mounted component in
Started(c, p, sr) ==
    /\ component = c
    /\ props = p
    /\ sampleRate = sr
    /\ streamRef = TRUE
    /\ isMicRecording = FALSE
    /\ isRecording = TRUE
    /\ micRequests = 0
    /\ liveStreams = 1
    /\ audioContextRef = 1
    /\ analyzerRef = 1
    /\ animationFrameRef = 1
    /\ frames = {[id |-> 1, width |-> 0]}
    /\ frameCount = 1
    /\ contextCount = 1
    /\ openContexts = {1}
    /\ frequencyBars = initialBars(p)
    /\ audioVolumeHistory = <<>>
    /\ containerWidth = 0
    /\ now = 0
    /\ dataRead = <<>>
    /\ lastOp = "start"
    /\ sinceStop = FALSE
    /\ pushed = <<>>
    /\ pushBounds = <<>>

InitBins == \E c \in BinConfigs : Started(c.component, c.props, c.sampleRate)

NextBins == spectrumTick

SpecBins == InitBins /\ [][NextBins]_vars

-----------------------------------------------------------------------------
(* Claims about the bin mapping, checked under SpecBins *)

bufferLength == frequencyBinCount(props)
binRange == getFrequencyBinRange(props, sampleRate, bufferLength)

\* a tick has called getFrequencyBinRange with the configuration of the state
rangeComputed == spectrum /\ lastOp \in {"tick:published", "tick:emptyRange"}

\* C7: for every sample rate, FFT size and frequency range with
\* 0 <= minHz < maxHz, also one above the Nyquist frequency, the bin range
\* satisfies 0 <= startBin <= endBin <= bufferLength.
C7_BinRangeOrdered ==
    (rangeComputed /\ validFrequencyRange(props, sampleRate)) =>
        /\ 0 <= binRange.startBin
        /\ binRange.startBin <= binRange.endBin
        /\ binRange.endBin <= bufferLength

logRangeOf(index) == logBarRange(props, sampleRate, binRange, index)
linearRangeOf(index) == linearBarRange(props, binRange, index)

\* C8: in log mode, over a non-empty overall range, the sub-ranges of bars
\* 0..barCount-1 tile [startBin, endBin): bar 0 starts at startBin, each bar
\* starts where the previous one ends, the last bar ends at endBin.
C8_LogRangesTile ==
    (component = "log" /\ lastOp = "tick:published") =>
        /\ logRangeOf(0).rangeStartIdx = binRange.startBin
        /\ \A i \in 1 .. props.barCount - 1 :
               logRangeOf(i).rangeStartIdx = logRangeOf(i - 1).rangeEndIdx
        /\ logRangeOf(props.barCount - 1).rangeEndIdx = binRange.endBin

\* C9: in linear mode, over a non-empty overall range and for every
\* barCount >= 1, the sub-ranges of bars 0..barCount-1 are contiguous and
\* disjoint and their union is [startBin, endBin): bar 0 starts at startBin,
\* each bar starts where the previous one ends, the last bar ends at endBin.
C9_LinearRangesTile ==
    (component = "linear" /\ lastOp = "tick:published") =>
        /\ Len(frequencyBars) = props.barCount
        /\ linearRangeOf(0).rangeStartIdx = binRange.startBin
        /\ \A i \in 0 .. props.barCount - 1 :
               linearRangeOf(i).rangeStartIdx <= linearRangeOf(i).rangeEndIdx
        /\ \A i \in 1 .. props.barCount - 1 :
               linearRangeOf(i).rangeStartIdx = linearRangeOf(i - 1).rangeEndIdx
        /\ linearRangeOf(props.barCount - 1).rangeEndIdx = binRange.endBin

\* bufferLength 128, sampleRate 44100, fftSize 256, 100 Hz .. 8 kHz, 16 bars:
\* the range is [0, 47) and the 16th bar is [44, 47)
C9_Witness ==
    /\ component = "linear"
    /\ lastOp = "tick:published"
    /\ sampleRate = 44100
    /\ props = spectrumProps(256, 100, 8000, 16)
    /\ binRange = [startBin |-> 0, endBin |-> 47]
    /\ linearRangeOf(0) = [rangeStartIdx |-> 0, rangeEndIdx |-> 2]
    /\ linearRangeOf(15) = [rangeStartIdx |-> 44, rangeEndIdx |-> 47]

\* the mapping C10 states: the whole buffer when no bound is requested,
\* otherwise floor and ceiling of the bin positions of minHz (default 0) and
\* maxHz (default sampleRate / 2), each clamped into [0, bufferLength]
referenceBinRange ==
    LET clamp(x) == Max(0, Min(x, bufferLength))
        minHz == IF props.minFrequencyHz = Undefined THEN 0 ELSE props.minFrequencyHz
        maxHz2 == IF props.maxFrequencyHz = Undefined THEN sampleRate
                  ELSE 2 * props.maxFrequencyHz
    IN  IF props.minFrequencyHz = Undefined /\ props.maxFrequencyHz = Undefined
        THEN [startBin |-> 0, endBin |-> bufferLength]
        ELSE [startBin |-> clamp((minHz * props.fftSize) \div sampleRate),
              endBin |-> clamp(-((-(maxHz2 * props.fftSize)) \div (2 * sampleRate)))]

\* C10: getFrequencyBinRange equals the reference mapping for every input.
C10_MatchesReference == rangeComputed => binRange = referenceBinRange

-----------------------------------------------------------------------------
(* Claims about the published bar values, checked under SpecBins *)

published == spectrum /\ lastOp = "tick:published"
barIndices == 0 .. props.barCount - 1
barRangeOf(index) ==
    IF component = "log" THEN logRangeOf(index) ELSE linearRangeOf(index)
emptyRange(r) == r.rangeEndIdx <= r.rangeStartIdx
barValue(index) == frequencyBars[index + 1].value

\* the bin nearest the start of the sub-band of bar index: the bin holding
\* the band's lower edge, or the last bin of the buffer when that edge lies
\* beyond it
nearestBin(index) ==
    Min(IF component = "log" THEN logEdgeFloor(props, sampleRate, index)
        ELSE linearRangeOf(index).rangeStartIdx,
        bufferLength - 1)

\* C11: in either bucketing mode, a bar whose sub-range is empty is published
\* as buffer[b] / ratio, b the bin nearest the start of its sub-band.
C11_EmptyRangeReadsNearestBin ==
    published =>
        \A i \in barIndices :
            emptyRange(barRangeOf(i)) =>
                barValue(i) = Frac(dataRead[nearestBin(i) + 1], props.ratio)

\* the buffer indices the tick reads for bar index: the averaging loop's, or
\* the fallback's single bin (the equal-width variant reads none for an
\* empty sub-range)
indicesRead(index) ==
    LET r == barRangeOf(index)
    IN  IF ~emptyRange(r) THEN r.rangeStartIdx .. r.rangeEndIdx - 1
        ELSE IF component = "log"
             THEN {logSingleBinIdx(props, sampleRate, bufferLength, index)}
             ELSE {}

\* C12: with ratio > 0 and bufferLength >= 1, every index a tick reads lies in
\* [0, bufferLength - 1], no mean is taken over zero bins, and every published
\* value is a finite number >= 0.
C12_ValuesDefined ==
    (published /\ props.ratio > 0 /\ bufferLength >= 1) =>
        \A i \in barIndices :
            /\ indicesRead(i) \subseteq 0 .. bufferLength - 1
            /\ ~emptyRange(barRangeOf(i)) =>
                   barRangeOf(i).rangeEndIdx - barRangeOf(i).rangeStartIdx > 0
            /\ Finite(barValue(i))
            /\ barValue(i).n >= 0

\* a log-mode bar whose band starts beyond the buffer was published from the
\* last bin
C12_Witness ==
    /\ component = "log"
    /\ published
    /\ \E i \in barIndices :
           /\ emptyRange(barRangeOf(i))
           /\ logEdgeFloor(props, sampleRate, i) > bufferLength - 1
           /\ indicesRead(i) = {bufferLength - 1}
           /\ barValue(i) # Zero

\* the sum of the buffer the tick read over the sub-range of bar index
sumRead(index) ==
    SumRange(dataRead, barRangeOf(index).rangeStartIdx, barRangeOf(index).rangeEndIdx)
binsRead(index) == barRangeOf(index).rangeEndIdx - barRangeOf(index).rangeStartIdx

-----------------------------------------------------------------------------
(* The capacity bound over many bar geometries: a mounted volume component  *)
(* whose first width report has arrived, for every geometry of              *)
(* VolumeBarProps and every width of BarWidths, and its sessions            *)

\* clientWidth values: nothing measured yet, narrower than one bar, one bar
\* exactly, between whole bars, and wide enough for more than 180 bars
BarWidths == {0, 1, 7, 15, 16, 17, 33, 200, 3300}

Measured(p, w) ==
    /\ component = "volume"
    /\ props = p
    /\ sampleRate \in SessionSampleRates
    /\ streamRef = FALSE
    /\ isMicRecording = FALSE
    /\ isRecording = FALSE
    /\ micRequests = 0
    /\ liveStreams = 0
    /\ audioContextRef = 0
    /\ analyzerRef = 0
    /\ animationFrameRef = 0
    /\ frames = {}
    /\ frameCount = 0
    /\ contextCount = 0
    /\ openContexts = {}
    /\ frequencyBars = <<>>
    /\ audioVolumeHistory = <<>>
    /\ containerWidth = w
    /\ now = 0
    /\ dataRead = <<>>
    /\ lastOp = "resize"
    /\ sinceStop = FALSE
    /\ pushed = <<>>
    /\ pushBounds = <<>>

InitBars == \E p \in VolumeBarProps : \E w \in BarWidths : Measured(p, w)

NextBars ==
    \/ startRecording
    \/ volumeStartVisualization
    \/ volumeTick

SpecBars == InitBars /\ [][NextBars]_vars

\* the bound C20 states
referenceMaxVisibleBars(viewportWidth, barWidth, barSpacing) ==
    IF barWidth + barSpacing = 0 \/ viewportWidth = 0 THEN 3 * 60
    ELSE Min((viewportWidth + barSpacing) \div (barWidth + barSpacing), 3 * 60)

\* C20: calculateMaxVisibleBars is the reference bound for every viewport
\* width, bar width and bar spacing >= 0, and that is the bound every push
\* of a session started at that width applies.
C20_MaxVisibleBarsMatchesReference ==
    component = "volume" =>
        LET reference == referenceMaxVisibleBars(containerWidth, props.barWidth,
                                                 props.barSpacing)
        IN  /\ calculateMaxVisibleBars(props, containerWidth) = reference
            /\ \A i \in 1 .. Len(pushBounds) : pushBounds[i] = reference

\* barWidth 16, barSpacing 1, viewport width 0: a push applied the time bound
C20_Witness ==
    /\ component = "volume"
    /\ props.barWidth = 16
    /\ props.barSpacing = 1
    /\ containerWidth = 0
    /\ lastOp = "tick:pushed"
    /\ pushBounds[1] = 180

-----------------------------------------------------------------------------
(* The volume of a sample over many ratios and buffers: a volume session     *)
(* that has just been started, for every ratio of VolumeRatioProps, and its  *)
(* ticks                                                                     *)

InitVolume ==
    \E p \in VolumeRatioProps : \E sr \in SessionSampleRates : Started("volume", p, sr)

NextVolume == volumeTickWide

SpecVolume == InitVolume /\ [][NextVolume]_vars

\* x lies in [0, 1]
inUnitInterval(x) == Finite(x) /\ 0 <= x.n /\ x.n <= x.d

\* C26: for every buffer of magnitudes 0..255 and every ratio > 0 the sample
\* a push appends is min(1, mean(buffer) / ratio), and every volume in the
\* window lies in [0, 1].
C26_VolumeIsClampedMean ==
    (component = "volume" /\ props.ratio > 0) =>
        /\ lastOp = "tick:pushed" =>
               LET sum == SumRange(dataRead, 0, Len(dataRead))
                   den == Len(dataRead) * props.ratio
                   v == lastPushed.volume
               IN  /\ \A i \in 1 .. Len(dataRead) : dataRead[i] \in 0 .. 255
                   /\ audioVolumeHistory[Len(audioVolumeHistory)] = lastPushed
                   /\ IF sum >= den THEN v = One
                      ELSE Finite(v) /\ v.n * den = sum * v.d
        /\ \A i \in 1 .. Len(audioVolumeHistory) :
               inUnitInterval(audioVolumeHistory[i].volume)

\* the window holds a volume truncated to 1 and one strictly between 0 and 1
C26_Witness ==
    /\ component = "volume"
    /\ props.ratio > 0
    /\ lastOp = "tick:pushed"
    /\ SumRange(dataRead, 0, Len(dataRead)) > Len(dataRead) * props.ratio
    /\ lastPushed.volume = One
    /\ \E i \in 1 .. Len(audioVolumeHistory) :
           /\ audioVolumeHistory[i].volume # Zero
           /\ audioVolumeHistory[i].volume # One

-----------------------------------------------------------------------------
(* The demo application: Controller, useAudioStreaming and the volume        *)
(* visualizer wired by App. A click handler, and the continuation of a       *)
(* settled getUserMedia() promise, each run to their end before any other    *)
(* task of the event loop: stopRecording awaits nothing, so handleStop runs  *)
(* stop() in the microtask that follows it, and handleStart runs start() in  *)
(* the microtasks that follow the settling of getUserMedia().                *)

\* App.tsx renders LinearHistoricalVolumeVisualizer with its initial settings
AppProps ==
    [fftSize |-> 256, minFrequencyHz |-> Undefined, maxFrequencyHz |-> Undefined,
     barCount |-> 0, ratio |-> 50, barWidth |-> 7, barSpacing |-> 1]

InitSession == \E sr \in SessionSampleRates : Mounted("volume", AppProps, sr)

\* a click on "Mic Start": setIsMicRecording(true); onStart() runs handleStart
\* and startRecording up to await getUserMedia(...)
startMicRecording ==
    /\ ~isMicRecording
    /\ micRequests < MaxRequests
    /\ isMicRecording' = TRUE
    /\ micRequests' = micRequests + 1
    /\ UNCHANGED <<lastOp, config, streamRef, isRecording, liveStreams, audio,
                   animationFrameRef, frames, frameCount, frequencyBars,
                   audioVolumeHistory, containerWidth, now, sinceStop, history>>

\* getUserMedia() resolves with a new stream: the rest of startRecording, then
\* of handleStart: visualizerRef.current?.start()
getUserMediaResolved ==
    /\ micRequests > 0
    /\ micRequests' = micRequests - 1
    /\ granted(liveStreams)
    /\ volumeStart(TRUE)
    /\ UNCHANGED isMicRecording

\* getUserMedia() rejects: the catch of startRecording, after which handleStart
\* goes on to visualizerRef.current?.start() all the same
getUserMediaRejected ==
    /\ micRequests > 0
    /\ micRequests' = micRequests - 1
    /\ isRecording' = FALSE
    /\ volumeStart(streamRef)
    /\ UNCHANGED <<streamRef, liveStreams, isMicRecording>>

\* a click on "Stop": setIsMicRecording(false); onStop() runs handleStop:
\* stopRecording(), then visualizerRef.current?.stop()
stopMicRecording ==
    /\ isMicRecording
    /\ isMicRecording' = FALSE
    /\ released
    /\ \E outcome \in CloseOutcomes : volumeStopped(outcome)
    /\ UNCHANGED micRequests

NextSession ==
    \/ startMicRecording
    \/ getUserMediaResolved
    \/ getUserMediaRejected
    \/ stopMicRecording
    \/ volumeTick

SpecSession == InitSession /\ [][NextSession]_vars

\* C27: whenever no microphone request is pending and the Controller shows
\* not-recording, useAudioStreaming holds no live stream (streamRef is null,
\* isRecording is false, every stream obtained has had its tracks stopped) and
\* the visualizer loop has no tick pending.
C27_ViewsAgree ==
    (micRequests = 0 /\ ~isMicRecording) =>
        /\ ~streamRef
        /\ ~isRecording
        /\ liveStreams = 0
        /\ frames = {}

====
